---- MODULE Spec2Model ----
(***************************************************************************)
(* A model of enginematch's satisfies(pkg, {requirements}) (src/main.ts).  *)
(*                                                                         *)
(* Strings the code takes apart (version tokens, resolver entries, the     *)
(* minVersion / maxVersion bounds, engine names) are sequences of atoms:   *)
(* a digit, ".", "-", " " or a word such as "safari", "TP", "all".         *)
(* The two libraries the code imports are modelled at their interface:     *)
(* semver (coerce, gte, lte, minVersion, intersects) by its algorithms on  *)
(* parsed comparator sets, browserslist by a fixed dataset of queries.     *)
(* An engines range string is represented by the comparator sets semver    *)
(* parses it to (Range.set), an unparsable one by InvalidRange.            *)
(***************************************************************************)
EXTENDS Integers, Sequences, FiniteSets, TLC

\* ------------------------------------------------------------------ bounds

\* Largest version number the inputs mention.
MaxVer == 2
\* Longest requirement list.
MaxReqs == 2
\* Longest browserslist query list of a manifest.
MaxQueries == 1

\* ----------------------------------------------------------------- strings

DigitSeq == <<"0", "1", "2", "3", "4", "5", "6", "7", "8", "9">>
DigitSet == {DigitSeq[k] : k \in 1..10}
IsDigit(c) == c \in DigitSet
DigitVal(c) == (CHOOSE k \in 1..10 : DigitSeq[k] = c) - 1

RECURSIVE NumStr(_)
\* The decimal digits of n.
NumStr(n) == IF n < 10 THEN <<DigitSeq[n + 1]>>
             ELSE NumStr(n \div 10) \o <<DigitSeq[(n % 10) + 1]>>

\* undefined, and the empty string: both are falsy where the code tests them.
Absent == <<>>

\* String.prototype.indexOf(c), 1-based; 0 when c does not occur (JS -1).
IndexOf(s, c) ==
    IF \E k \in 1..Len(s) : s[k] = c
    THEN CHOOSE k \in 1..Len(s) : s[k] = c /\ \A l \in 1..(k - 1) : s[l] # c
    ELSE 0

\* s.slice(from) for a 1-based from.
SliceFrom(s, from) == SubSeq(s, from, Len(s))

RECURSIVE Split(_, _)
\* String.prototype.split(sep): the segments between the occurrences of sep.
Split(s, sep) ==
    IF IndexOf(s, sep) = 0 THEN <<s>>
    ELSE <<SubSeq(s, 1, IndexOf(s, sep) - 1)>> \o Split(SliceFrom(s, IndexOf(s, sep) + 1), sep)

\* s[from..], cut before its first atom that is neither a digit nor ".".
RECURSIVE DigitsAndDots(_)
DigitsAndDots(s) ==
    IF s = <<>> \/ ~(IsDigit(Head(s)) \/ Head(s) = ".") THEN <<>>
    ELSE <<Head(s)>> \o DigitsAndDots(Tail(s))

RECURSIVE NumOf(_)
\* The number a run of digits writes.
NumOf(ds) ==
    IF ds = <<>> THEN 0
    ELSE 10 * NumOf(SubSeq(ds, 1, Len(ds) - 1)) + DigitVal(ds[Len(ds)])

RECURSIVE LeadingRuns(_)
\* The segments before the first empty one.
LeadingRuns(parts) ==
    IF parts = <<>> \/ Head(parts) = <<>> THEN <<>>
    ELSE <<Head(parts)>> \o LeadingRuns(Tail(parts))

FirstThree(parts) == SubSeq(parts, 1, IF Len(parts) < 3 THEN Len(parts) ELSE 3)

\* ------------------------------------------------------------------ semver

\* A version is <<major, minor, patch>>; semver's null is NoVersion.
NoVersion == <<>>
VLt(a, b) ==
    \/ a[1] < b[1]
    \/ a[1] = b[1] /\ a[2] < b[2]
    \/ a[1] = b[1] /\ a[2] = b[2] /\ a[3] < b[3]
gte(a, b) == ~VLt(a, b)
lte(a, b) == ~VLt(b, a)

\* Position of the first digit of s (s has one).
FirstDigit(s) == CHOOSE k \in 1..Len(s) : IsDigit(s[k]) /\ \A l \in 1..(k - 1) : ~IsDigit(s[l])

\* The dotted numbers t starts with (t starts with a digit): up to three runs
\* of digits joined by single dots.
DottedRuns(t) == FirstThree(LeadingRuns(Split(DigitsAndDots(t), ".")))

\* major.minor.patch of up to three runs of digits; a missing one is 0.
VersionOf(runs) ==
    <<NumOf(runs[1]),
      IF Len(runs) >= 2 THEN NumOf(runs[2]) ELSE 0,
      IF Len(runs) >= 3 THEN NumOf(runs[3]) ELSE 0>>

\* semver.coerce: the first run of digits of the string is the major, a
\* following ".digits" the minor, one more the patch; missing parts are 0.
\* A string without a digit coerces to null.
semverCoerce(s) ==
    IF \A k \in 1..Len(s) : ~IsDigit(s[k]) THEN NoVersion
    ELSE VersionOf(DottedRuns(SliceFrom(s, FirstDigit(s))))

\* A parsed range is a set of comparator sets (the alternatives of "||"); a
\* comparator is [op, v] with op one of ">=", ">", "<", "<=", "" (exact).
Cmp(op, v) == [op |-> op, v |-> v]
Range(sets) == [valid |-> TRUE, set |-> sets]
InvalidRange == [valid |-> FALSE, set |-> {}]

\* Comparator.test
CmpTest(c, v) ==
    CASE c.op = ">=" -> gte(v, c.v)
      [] c.op = ">"  -> VLt(c.v, v)
      [] c.op = "<"  -> VLt(v, c.v)
      [] c.op = "<=" -> lte(v, c.v)
      [] OTHER       -> v = c.v

\* Range.test
RangeTest(range, v) == \E cs \in range.set : \A c \in cs : CmpTest(c, v)

VMax(S) == CHOOSE v \in S : \A w \in S : gte(v, w)
VMin(S) == CHOOSE v \in S : \A w \in S : lte(v, w)

\* The least version a lower comparator admits (">" bumps the patch).
Lower(c) == IF c.op = ">" THEN <<c.v[1], c.v[2], c.v[3] + 1>> ELSE c.v
Lowers(cs) == {Lower(c) : c \in {d \in cs : d.op \in {">", ">=", ""}}}
\* Per comparator set with a lower comparator, the greatest of them.
SetMins(range) == {VMax(Lowers(cs)) : cs \in {ds \in range.set : Lowers(ds) # {}}}
IfAdmitted(range, v) == IF RangeTest(range, v) THEN v ELSE NoVersion

\* semver.minVersion of a parsed range: 0.0.0 when the range admits it; else
\* the least of the sets' minima, and null unless the range admits it.
MinVersionOf(range) ==
    IF RangeTest(range, <<0, 0, 0>>) THEN <<0, 0, 0>>
    ELSE IF SetMins(range) = {} THEN NoVersion
    ELSE IfAdmitted(range, VMin(SetMins(range)))

\* Comparator.intersects
CmpIntersects(a, b) ==
    IF a.op = "" THEN CmpTest(b, a.v)
    ELSE IF b.op = "" THEN CmpTest(a, b.v)
    ELSE \/ a.op \in {">", ">="} /\ b.op \in {">", ">="}
         \/ a.op \in {"<", "<="} /\ b.op \in {"<", "<="}
         \/ a.v = b.v /\ a.op \in {">=", "<="} /\ b.op \in {">=", "<="}
         \/ VLt(a.v, b.v) /\ a.op \in {">", ">="} /\ b.op \in {"<", "<="}
         \/ VLt(b.v, a.v) /\ a.op \in {"<", "<="} /\ b.op \in {">", ">="}

\* Range.intersects of two parsed ranges
RangeIntersects(r1, r2) ==
    LET Satisfiable(cs) == \A a \in cs : \A b \in cs : CmpIntersects(a, b)
    IN  \E cs1 \in r1.set : /\ Satisfiable(cs1)
                        /\ \E cs2 \in r2.set : /\ Satisfiable(cs2)
                                           /\ \A a \in cs1 : \A b \in cs2 :
                                                  CmpIntersects(a, b)

\* ">1" is ">=2.0.0", ">1.2" is ">=1.3.0", ">1.2.3" is itself.
GtOf(v, given) ==
    IF given = 1 THEN Range({{Cmp(">=", <<v[1] + 1, 0, 0>>)}})
    ELSE IF given = 2 THEN Range({{Cmp(">=", <<v[1], v[2] + 1, 0>>)}})
    ELSE Range({{Cmp(">", v)}})

WellFormed(runs) == Len(runs) \in 1..3 /\ \A k \in 1..Len(runs) : runs[k] # <<>>

\* The range semver parses '>' + maxVersion to: a partial version is widened.
\* Of the strings the model draws, one that is not one to three dotted
\* numbers is no comparator, and semver's Range constructor throws.
GtRange(maxVersion) ==
    IF DigitsAndDots(maxVersion) = maxVersion /\ WellFormed(Split(maxVersion, "."))
    THEN GtOf(VersionOf(Split(maxVersion, ".")), Len(Split(maxVersion, ".")))
    ELSE InvalidRange

\* ------------------------------------------------------------- browserslist

Word(w) == <<w>>
node == Word("node")
safari == Word("safari")
op_mini == Word("op_mini")
TP == Word("TP")

\* "<family> <version>", as the resolver shapes an entry.
Entry(family, version) == family \o <<" ">> \o version

\* The resolver's dataset: what each query it knows resolves to. The code
\* takes whatever the resolver returns, so "defaults" also holds what the
\* resolver is not known to return: an entry without a space, "TP" outside
\* safari.
KnownQueries ==
    {"node >= 1", "safari TP", "safari 1.5-2.5", "safari 1-3-2", "op_mini all", "defaults"}
\* A query the resolver rejects (browserslist throws on an unknown query).
UnknownQuery == "bogus"
Queries == KnownQueries \cup {UnknownQuery}
\* The query the code synthesizes for a "TP" token.
LastSafariQuery == "last 1 safari version"

Dataset(q) ==
    CASE q = "node >= 1" ->
            [k \in 1..MaxVer |-> Entry(node, NumStr(MaxVer + 1 - k) \o <<".", "0", ".", "0">>)]
      [] q = "safari TP" -> <<Entry(safari, TP)>>
      [] q = "safari 1.5-2.5" -> <<Entry(safari, <<"1", ".", "5", "-", "2", ".", "5">>)>>
      [] q = "safari 1-3-2" -> <<Entry(safari, <<"1", "-", "3", "-", "2">>)>>
      [] q = "op_mini all" -> <<Entry(op_mini, Word("all"))>>
      [] q = "defaults" ->
            <<Entry(safari, TP), Entry(safari, NumStr(MaxVer)), Word("junk"),
              Entry(node, NumStr(MaxVer) \o <<".", "0", ".", "0">>), Entry(op_mini, TP)>>

RECURSIVE Concat(_)
Concat(ss) == IF ss = <<>> THEN <<>> ELSE Head(ss) \o Concat(Tail(ss))

\* browserslist(query_list): the entries of every query in order; it throws
\* when a query is unknown.
BrowserslistThrows(query_list) == \E k \in 1..Len(query_list) : query_list[k] \notin KnownQueries
Browserslist(query_list) == Concat([k \in 1..Len(query_list) |-> Dataset(query_list[k])])

\* -------------------------------------------------------- parse_browserslist

EmptyMap == [f \in {} |-> <<>>]

\* existing ? existing.push(version) : map.set(family, [version])
Put(map, family, version) ==
    IF family \in DOMAIN map
    THEN [map EXCEPT ![family] = Append(@, version)]
    ELSE map @@ (family :> <<version>>)

\* One entry: split at its first space; an entry without a space is skipped.
AddEntry(map, entry) ==
    IF IndexOf(entry, " ") = 0 THEN map
    ELSE Put(map, SubSeq(entry, 1, IndexOf(entry, " ") - 1),
                  SliceFrom(entry, IndexOf(entry, " ") + 1))

RECURSIVE BuildMap(_, _)
\* for (const entry of resolved) ...
BuildMap(resolved, map) ==
    IF resolved = <<>> THEN map
    ELSE BuildMap(Tail(resolved), AddEntry(map, Head(resolved)))

\* The browserslist field: undefined, a string, an array of strings, or the
\* record keyed by environment.
NoQueries == [kind |-> "undefined", list |-> <<>>]
QueryString(q) == [kind |-> "string", list |-> <<q>>]
QueryArray(qs) == [kind |-> "array", list |-> qs]
QueryRecord == [kind |-> "record", list |-> <<>>]

\* Variant: any other shape is taken for an empty query list.
UnsupportedFormat_lenient(queries) == FALSE
UnsupportedFormat(queries) == queries.kind \notin {"undefined", "string", "array"}
\* query_list, for a supported field
QueryList(queries) == queries.list
\* Variant: without the early return on an empty query list.
CallsResolver_empty(queries) == queries.kind # "undefined" /\ ~UnsupportedFormat(queries)
\* Whether parse_browserslist reaches its call of the resolver.
CallsResolver(queries) ==
    /\ queries.kind # "undefined"
    /\ ~UnsupportedFormat(queries)
    /\ Len(QueryList(queries)) # 0

\* ---------------------------------------------------------------- satisfies

\* if (!minVersion && !maxVersion) continue
HasBound(c) == c.minVersion # Absent \/ c.maxVersion # Absent

\* if (!engine_range && !browser_versions) continue
Targeted(engines, bmap, c) == c.engine \in DOMAIN engines \/ c.engine \in DOMAIN bmap

\* !lowest || !coerced_min || !gte(lowest, coerced_min)
BelowMin(lowest, coerced_min) ==
    lowest = NoVersion \/ coerced_min = NoVersion \/ ~gte(lowest, coerced_min)

\* if (semverIntersects(engine_range, '>' + maxVersion)) return false
AboveMax(range, gt) ==
    IF ~range.valid \/ ~gt.valid THEN "throw"
    ELSE IF RangeIntersects(range, gt) THEN "fail"
    ELSE "pass"

\* Variant: without the null guards before gte, which throws on null.
EngineRangeCheck_unguarded(range, minVersion, maxVersion) ==
    IF minVersion # Absent /\ (\/ ~range.valid
                               \/ MinVersionOf(range) = NoVersion
                               \/ semverCoerce(minVersion) = NoVersion)
    THEN "throw"
    ELSE IF minVersion # Absent /\ ~gte(MinVersionOf(range), semverCoerce(minVersion))
    THEN "fail"
    ELSE IF maxVersion = Absent THEN "pass"
    ELSE AboveMax(range, GtRange(maxVersion))

\* The engine range block: "fail" is its return false, "throw" an exception
\* of semver's Range constructor, "pass" falling through.
EngineRangeCheck(range, minVersion, maxVersion) ==
    IF minVersion # Absent /\ ~range.valid THEN "throw"
    ELSE IF minVersion # Absent /\ BelowMin(MinVersionOf(range), semverCoerce(minVersion))
    THEN "fail"
    ELSE IF maxVersion = Absent THEN "pass"
    ELSE AboveMax(range, GtRange(maxVersion))

\* Variant: "TP" is compared as it stands.
EffectiveToken_direct(v, latest) == v
\* The version a "TP" token is replaced by: the part of the resolver's first
\* answer after its first space.
LatestVersion(latest) == SliceFrom(latest[1], IndexOf(latest[1], " ") + 1)
NeedsLookup(v) == v = TP
SkipsToken(v, latest) == NeedsLookup(v) /\ latest = <<>>
EffectiveToken(v, latest) == IF NeedsLookup(v) THEN LatestVersion(latest) ELSE v

\* const parts = version.split('-'); low = parts[0]; high = parts[parts.length - 1]
First(parts) == parts[1]
Last(parts) == parts[Len(parts)]
TokenLow(v) == First(Split(v, "-"))
\* Variant: the high bound is taken from the first segment too.
TokenHigh_first(v) == First(Split(v, "-"))
TokenHigh(v) == Last(Split(v, "-"))

\* Variant: a side that cannot be coerced lets the check pass.
GteCoerced_skip(coerced, coerced_min) ==
    coerced = NoVersion \/ coerced_min = NoVersion \/ gte(coerced, coerced_min)
\* !coerced || !coerced_min || !gte(coerced, coerced_min), negated
GteCoerced(coerced, coerced_min) ==
    coerced # NoVersion /\ coerced_min # NoVersion /\ gte(coerced, coerced_min)
\* !coerced || !coerced_max || !lte(coerced, coerced_max), negated
LteCoerced(coerced, coerced_max) ==
    coerced # NoVersion /\ coerced_max # NoVersion /\ lte(coerced, coerced_max)

MinCheck(v, minVersion) == GteCoerced(semverCoerce(TokenLow(v)), semverCoerce(minVersion))
MaxCheck(v, maxVersion) == LteCoerced(semverCoerce(TokenHigh(v)), semverCoerce(maxVersion))

\* The two bound checks on one (effective) token: FALSE is return false.
TokenCheck(v, minVersion, maxVersion) ==
    /\ minVersion # Absent => MinCheck(v, minVersion)
    /\ maxVersion # Absent => MaxCheck(v, maxVersion)

\* The outcome of one constraint: "pass" (the loop goes on), "fail" (return
\* false) or "throw".
ConstraintOutcome(engines, bmap, latest, c) ==
    IF ~HasBound(c) \/ ~Targeted(engines, bmap, c) THEN "pass"
    ELSE LET ranged == IF c.engine \in DOMAIN engines
                       THEN EngineRangeCheck(engines[c.engine], c.minVersion, c.maxVersion)
                       ELSE "pass"
             versions == bmap[c.engine]
         IN  IF ranged # "pass" THEN ranged
             ELSE IF /\ c.engine \in DOMAIN bmap
                     /\ \E k \in 1..Len(versions) :
                           /\ ~SkipsToken(versions[k], latest)
                           /\ ~TokenCheck(EffectiveToken(versions[k], latest),
                                          c.minVersion, c.maxVersion)
             THEN "fail"
             ELSE "pass"

RECURSIVE LoopOutcome(_, _, _, _)
\* for (const constraint of requirements) ... return true
LoopOutcome(engines, bmap, latest, reqs) ==
    IF reqs = <<>> THEN "true"
    ELSE LET o == ConstraintOutcome(engines, bmap, latest, Head(reqs))
         IN  IF o = "fail" THEN "false"
             ELSE IF o = "throw" THEN "throw"
             ELSE LoopOutcome(engines, bmap, latest, Tail(reqs))

\* satisfies(manifest, {requirements: reqs}) as a function of its inputs and
\* of the resolver's answer to the safari lookup: "true", "false" or "throw".
Satisfies(manifest, latest, reqs) ==
    LET queries == manifest.browserslist
    IN  IF UnsupportedFormat(queries) THEN "throw"
        ELSE IF CallsResolver(queries) /\ BrowserslistThrows(QueryList(queries)) THEN "throw"
        ELSE LoopOutcome(manifest.engines,
                         IF CallsResolver(queries)
                         THEN BuildMap(Browserslist(QueryList(queries)), EmptyMap)
                         ELSE EmptyMap,
                         latest, reqs)

\* ------------------------------------------------------------------ inputs

EngineNames == {node, safari, op_mini}
Uncoercible == Word("abc")
\* "1.5": a bound written with two components
Dotted == <<"1", ".", "5">>
BoundStrings == {Absent, Uncoercible, Dotted} \cup {NumStr(n) : n \in 1..MaxVer}
Constraints == [engine : EngineNames, minVersion : BoundStrings, maxVersion : BoundStrings]
\* Lists of two or more constraints draw on these.
CoreConstraints ==
    [engine : {node, safari}, minVersion : {NumStr(1), NumStr(MaxVer)}, maxVersion : {Absent}]
RequirementLists ==
    {<<>>} \cup {<<c>> : c \in Constraints}
           \cup UNION {[1..n -> CoreConstraints] : n \in 2..MaxReqs}

AtLeast(n) == Range({{Cmp(">=", <<n, 0, 0>>)}})
Between(n, m) == Range({{Cmp(">=", <<n, 0, 0>>), Cmp("<", <<m, 0, 0>>)}})
Exactly(n) == Range({{Cmp("", <<n, 0, 0>>)}})
\* ">=1", ..: open above; ">=1 <2": capped; "2.0.0": one version; ">=2 <1":
\* admits no version; and a string that is no range.
Ranges ==
    {AtLeast(n) : n \in 1..MaxVer}
        \cup {Between(1, MaxVer), Exactly(MaxVer), Between(MaxVer, 1), InvalidRange}
EngineMaps == {EmptyMap} \cup {node :> r : r \in Ranges}
BrowserslistFields ==
    {NoQueries, QueryRecord} \cup {QueryString(q) : q \in Queries}
        \cup {QueryArray(qs) : qs \in UNION {[1..n -> Queries] : n \in 0..MaxQueries}}
Manifests == [engines : EngineMaps, browserslist : BrowserslistFields]
\* What the resolver answers to LastSafariQuery: nothing, or the latest safari.
LatestAnswers == {<<>>, <<Entry(safari, NumStr(MaxVer))>>}

\* ------------------------------------------------------------ state machine

VARIABLES
    pkg,            \* the manifest passed in
    requirements,   \* options.requirements
    safari_latest,  \* the resolver's answer to LastSafariQuery
    pc,             \* "parse", "loop", "tokens", "done" (returned), "threw"
    browser_map,    \* parse_browserslist's result
    i,              \* the constraint the outer loop is at (1-based)
    j,              \* the version the inner loop is at (1-based)
    result,         \* "none" until satisfies returns "true" or "false"
    error,          \* "none" until satisfies throws
    calls           \* the query lists the resolver was called with, in order

vars == <<pkg, requirements, safari_latest, pc, browser_map, i, j, result, error, calls>>
inputs == <<pkg, requirements, safari_latest>>

Init ==
    /\ pkg \in Manifests
    /\ requirements \in RequirementLists
    /\ safari_latest \in LatestAnswers
    /\ pc = "parse"
    /\ browser_map = EmptyMap
    /\ i = 1
    /\ j = 1
    /\ result = "none"
    /\ error = "none"
    /\ calls = <<>>

constraint == requirements[i]
version == browser_map[constraint.engine][j]

\* throw new Error('Unsupported browserslist format: ...')
ParseFormatError ==
    /\ pc = "parse"
    /\ UnsupportedFormat(pkg.browserslist)
    /\ pc' = "threw"
    /\ error' = "UnsupportedFormat"
    /\ UNCHANGED <<inputs, browser_map, i, j, result, calls>>

\* return new Map() for an undefined field or an empty query list
ParseNoQueries ==
    /\ pc = "parse"
    /\ ~UnsupportedFormat(pkg.browserslist)
    /\ ~CallsResolver(pkg.browserslist)
    /\ pc' = "loop"
    /\ browser_map' = EmptyMap
    /\ UNCHANGED <<inputs, i, j, result, error, calls>>

\* browserslist(query_list) throws: nothing catches it
ParseResolverThrows ==
    /\ pc = "parse"
    /\ CallsResolver(pkg.browserslist)
    /\ BrowserslistThrows(QueryList(pkg.browserslist))
    /\ calls' = Append(calls, QueryList(pkg.browserslist))
    /\ pc' = "threw"
    /\ error' = "BrowserslistError"
    /\ UNCHANGED <<inputs, browser_map, i, j, result>>

\* browserslist(query_list) answers and the map is built from its entries
ParseResolved ==
    /\ pc = "parse"
    /\ CallsResolver(pkg.browserslist)
    /\ ~BrowserslistThrows(QueryList(pkg.browserslist))
    /\ calls' = Append(calls, QueryList(pkg.browserslist))
    /\ browser_map' = BuildMap(Browserslist(QueryList(pkg.browserslist)), EmptyMap)
    /\ pc' = "loop"
    /\ UNCHANGED <<inputs, i, j, result, error>>

\* The loop is over: return true
ReturnTrue ==
    /\ pc = "loop"
    /\ i > Len(requirements)
    /\ pc' = "done"
    /\ result' = "true"
    /\ UNCHANGED <<inputs, browser_map, i, j, error, calls>>

\* if (!minVersion && !maxVersion) continue
SkipUnbounded ==
    /\ pc = "loop"
    /\ i <= Len(requirements)
    /\ ~HasBound(constraint)
    /\ i' = i + 1
    /\ UNCHANGED <<inputs, pc, browser_map, j, result, error, calls>>

\* Variant: a bounded constraint on an untargeted engine returns false.
SkipUntargeted_closed ==
    /\ pc = "loop"
    /\ i <= Len(requirements)
    /\ HasBound(constraint)
    /\ ~Targeted(pkg.engines, browser_map, constraint)
    /\ pc' = "done"
    /\ result' = "false"
    /\ UNCHANGED <<inputs, browser_map, i, j, error, calls>>

\* if (!engine_range && !browser_versions) continue
SkipUntargeted ==
    /\ pc = "loop"
    /\ i <= Len(requirements)
    /\ HasBound(constraint)
    /\ ~Targeted(pkg.engines, browser_map, constraint)
    /\ i' = i + 1
    /\ UNCHANGED <<inputs, pc, browser_map, j, result, error, calls>>

\* What the engine range block does with the current constraint.
RangeOutcome ==
    IF constraint.engine \in DOMAIN pkg.engines
    THEN EngineRangeCheck(pkg.engines[constraint.engine],
                          constraint.minVersion, constraint.maxVersion)
    ELSE "pass"

Evaluates ==
    /\ pc = "loop"
    /\ i <= Len(requirements)
    /\ HasBound(constraint)
    /\ Targeted(pkg.engines, browser_map, constraint)

\* semverMinVersion or semverIntersects throws: nothing catches it
EngineRangeThrows ==
    /\ Evaluates
    /\ RangeOutcome = "throw"
    /\ pc' = "threw"
    /\ error' = "TypeError"
    /\ UNCHANGED <<inputs, browser_map, i, j, result, calls>>

\* return false from the engine range block
EngineRangeFails ==
    /\ Evaluates
    /\ RangeOutcome = "fail"
    /\ pc' = "done"
    /\ result' = "false"
    /\ UNCHANGED <<inputs, browser_map, i, j, error, calls>>

\* Variant: return true in place of going on to the next constraint.
EngineRangeOnly_returns ==
    /\ Evaluates
    /\ RangeOutcome = "pass"
    /\ constraint.engine \notin DOMAIN browser_map
    /\ pc' = "done"
    /\ result' = "true"
    /\ UNCHANGED <<inputs, browser_map, i, j, error, calls>>

\* The engine range block falls through (or there is no engine range), and
\* there are no browser versions: next constraint
EngineRangeOnly ==
    /\ Evaluates
    /\ RangeOutcome = "pass"
    /\ constraint.engine \notin DOMAIN browser_map
    /\ i' = i + 1
    /\ UNCHANGED <<inputs, pc, browser_map, j, result, error, calls>>

\* Variant: the browser versions are an else-branch of the engine range.
EnterVersions_masked ==
    /\ Evaluates
    /\ RangeOutcome = "pass"
    /\ constraint.engine \in DOMAIN browser_map
    /\ IF constraint.engine \in DOMAIN pkg.engines
       THEN i' = i + 1 /\ UNCHANGED <<pc, j>>
       ELSE pc' = "tokens" /\ j' = 1 /\ UNCHANGED i
    /\ UNCHANGED <<inputs, browser_map, result, error, calls>>

\* ... and there are browser versions: enter the inner loop
EnterVersions ==
    /\ Evaluates
    /\ RangeOutcome = "pass"
    /\ constraint.engine \in DOMAIN browser_map
    /\ pc' = "tokens"
    /\ j' = 1
    /\ UNCHANGED <<inputs, browser_map, i, result, error, calls>>

\* The resolver calls one iteration of the inner loop adds.
LookupCalls == IF NeedsLookup(version) THEN Append(calls, <<LastSafariQuery>>) ELSE calls

\* The inner loop moves on: to the next version, or to the next constraint.
NextVersion ==
    IF j < Len(browser_map[constraint.engine])
    THEN j' = j + 1 /\ UNCHANGED <<pc, i>>
    ELSE pc' = "loop" /\ i' = i + 1 /\ j' = 1

\* if (!latest) continue
TokenSkipped ==
    /\ pc = "tokens"
    /\ SkipsToken(version, safari_latest)
    /\ calls' = LookupCalls
    /\ NextVersion
    /\ UNCHANGED <<inputs, browser_map, result, error>>

\* return false from a bound check on a version
TokenFails ==
    /\ pc = "tokens"
    /\ ~SkipsToken(version, safari_latest)
    /\ ~TokenCheck(EffectiveToken(version, safari_latest),
                   constraint.minVersion, constraint.maxVersion)
    /\ calls' = LookupCalls
    /\ pc' = "done"
    /\ result' = "false"
    /\ UNCHANGED <<inputs, browser_map, i, j, error>>

\* Both bound checks pass on a version
TokenPasses ==
    /\ pc = "tokens"
    /\ ~SkipsToken(version, safari_latest)
    /\ TokenCheck(EffectiveToken(version, safari_latest),
                  constraint.minVersion, constraint.maxVersion)
    /\ calls' = LookupCalls
    /\ NextVersion
    /\ UNCHANGED <<inputs, browser_map, result, error>>

Next ==
    \/ ParseFormatError
    \/ ParseNoQueries
    \/ ParseResolverThrows
    \/ ParseResolved
    \/ ReturnTrue
    \/ SkipUnbounded
    \/ SkipUntargeted
    \/ EngineRangeThrows
    \/ EngineRangeFails
    \/ EngineRangeOnly
    \/ EnterVersions
    \/ TokenSkipped
    \/ TokenFails
    \/ TokenPasses

Spec == Init /\ [][Next]_vars

\* The outcome of the run, once it has one.
Outcome == IF pc = "threw" THEN "throw" ELSE result
Finished == pc \in {"done", "threw"}

TypeOK ==
    /\ pc \in {"parse", "loop", "tokens", "done", "threw"}
    /\ result \in {"none", "true", "false"}
    /\ error \in {"none", "UnsupportedFormat", "BrowserslistError", "TypeError"}
    /\ i \in 1..(Len(requirements) + 1)
    /\ (pc = "done") = (result # "none")
    /\ (pc = "threw") = (error # "none")
    /\ pc = "tokens" => /\ i <= Len(requirements)
                        /\ constraint.engine \in DOMAIN browser_map
                        /\ j \in 1..Len(browser_map[constraint.engine])

\* The stepwise run ends as the function of the inputs says.
RunMatchesSatisfies == Finished => Outcome = Satisfies(pkg, safari_latest, requirements)

\* ------------------------------------------------------------------ claims

Kind == pkg.browserslist.kind
\* The query list handed to the resolver, for a field that has one.
Asked == pkg.browserslist.list
Rejected == \E k \in 1..Len(Asked) : Asked[k] = UnknownQuery

\* C1, as stated: for every manifest, whatever the shape of its browserslist
\* field, satisfies(manifest, {requirements: []}) returns true, and the
\* resolver is not called.
C1_EmptyRequirementsAnyManifest ==
    requirements = <<>> => /\ pc # "threw"
                           /\ calls = <<>>
                           /\ pc = "done" => result = "true"

\* C1, amended: with an empty requirement list satisfies returns true exactly
\* when the browserslist field is absent, a string or a list the resolver
\* accepts. The field is normalized and resolved before the requirement list
\* is looked at: the record form raises the format error, a rejected query
\* list the resolver's error, and a non-empty list is resolved once.
C1_EmptyRequirements ==
    requirements = <<>> =>
        /\ pc \in {"parse", "loop", "done", "threw"}
        /\ pc = "done" => result = "true"
        /\ pc = "threw" =>
              \/ Kind = "record" /\ error = "UnsupportedFormat"
              \/ Kind \in {"string", "array"} /\ Rejected /\ error = "BrowserslistError"
        /\ pc \in {"loop", "done"} =>
              /\ Kind # "record" /\ ~Rejected
              /\ calls = IF Kind = "undefined" \/ Asked = <<>> THEN <<>> ELSE <<Asked>>

\* An empty requirement list returned true after the resolver was called.
C1_Witness ==
    requirements = <<>> /\ pc = "done" /\ result = "true" /\ Len(calls) = 1

\* C2: a constraint whose engine is in neither pkg.engines nor the resolved
\* browser map never makes satisfies return false (nor throw): a false
\* result, or a semver exception, comes from a targeted constraint, and a
\* list of untargeted constraints only yields true.
IsUntargeted(c) == c.engine \notin DOMAIN pkg.engines /\ c.engine \notin DOMAIN browser_map
C2_UntargetedNeverFails ==
    /\ result = "false" => ~IsUntargeted(requirements[i])
    /\ error = "TypeError" => ~IsUntargeted(requirements[i])
    /\ (pc \in {"done", "threw"} /\ error \notin {"UnsupportedFormat", "BrowserslistError"}
          /\ \A k \in 1..Len(requirements) : IsUntargeted(requirements[k]))
       => result = "true"

\* Two bounded, untargeted constraints were passed over although the manifest
\* declares an engine and resolved a browser family.
C2_Witness ==
    /\ pc = "done" /\ result = "true"
    /\ Len(requirements) = 2
    /\ \A k \in 1..2 : IsUntargeted(requirements[k]) /\ HasBound(requirements[k])
    /\ DOMAIN pkg.engines # {} /\ DOMAIN browser_map # {}

\* C3: the record form of the browserslist field makes satisfies raise the
\* unsupported-format error, whatever the requirement list: the resolver is
\* not called, no constraint is evaluated, nothing is returned.
C3_RecordFormRaises ==
    Kind = "record" =>
        /\ pc \in {"parse", "threw"}
        /\ pc = "threw" => error = "UnsupportedFormat"
        /\ calls = <<>>
        /\ browser_map = EmptyMap
        /\ i = 1 /\ j = 1
        /\ result = "none"

\* The format error was raised with a constraint waiting that a boolean
\* could have been returned for.
C3_Witness ==
    /\ Kind = "record" /\ pc = "threw" /\ error = "UnsupportedFormat"
    /\ Len(requirements) >= 1 /\ HasBound(requirements[1])

NoDigit(s) == \A k \in 1..Len(s) : s[k] \notin DigitSet
Hyphens(v) == {k \in 1..Len(v) : v[k] = "-"}
\* The token up to its first hyphen, and from its last hyphen on.
BeforeFirstHyphen(v) ==
    IF Hyphens(v) = {} THEN v
    ELSE SubSeq(v, 1, (CHOOSE k \in Hyphens(v) : \A l \in Hyphens(v) : k <= l) - 1)
AfterLastHyphen(v) ==
    IF Hyphens(v) = {} THEN v
    ELSE SubSeq(v, (CHOOSE k \in Hyphens(v) : \A l \in Hyphens(v) : k >= l) + 1, Len(v))
\* The version part of the resolver's answer "safari <MaxVer>".
LatestSafariVersion == NumStr(MaxVer)
\* The token the bound checks see in place of the current one.
Seen == IF version = TP THEN LatestSafariVersion ELSE version
Returned(r) == pc' = "done" /\ result' = r

\* A bound check that would be evaluated on token v has a side that cannot
\* be coerced.
Indeterminate(v, c) ==
    \/ c.minVersion # Absent /\ (NoDigit(BeforeFirstHyphen(v)) \/ NoDigit(c.minVersion))
    \/ c.maxVersion # Absent /\ (NoDigit(AfterLastHyphen(v)) \/ NoDigit(c.maxVersion))

\* C5: fail closed. Whenever the bound checks are evaluated on a browser
\* version token (one not skipped) and the token's bound or the required
\* bound cannot be coerced, that step returns false.
C5_FailClosed ==
    [][(/\ pc = "tokens"
        /\ ~(version = TP /\ safari_latest = <<>>)
        /\ Indeterminate(Seen, constraint))
       => Returned("false")]_vars

\* false was returned for the token "all" of a family with no engines range.
C5_Witness ==
    /\ pc = "done" /\ result = "false"
    /\ requirements[i].engine \notin DOMAIN pkg.engines
    /\ requirements[i].engine \in DOMAIN browser_map
    /\ browser_map[requirements[i].engine][j] = Word("all")
    /\ ~NoDigit(requirements[i].minVersion)

\* The bounds monotonicity is asked over, ordered by the version each
\* coerces to.
Comparable == {s \in BoundStrings : ~NoDigit(s)}
Leq(a, b) == lte(semverCoerce(a), semverCoerce(b))
WithMin(c, w) == <<[c EXCEPT !.minVersion = w]>>
WithMax(c, w) == <<[c EXCEPT !.maxVersion = w]>>

\* C6, as stated: if the single constraint {engine, minVersion: V} yields true
\* so does {engine, minVersion: W} for every W <= V, and if {engine,
\* maxVersion: V} yields true so does {engine, maxVersion: W} for every
\* W >= V.
C6_Monotone ==
    (pc = "done" /\ result = "true" /\ Len(requirements) = 1) =>
        /\ (requirements[1].minVersion \in Comparable /\ requirements[1].maxVersion = Absent)
           => \A w \in Comparable :
                 Leq(w, requirements[1].minVersion)
                 => Satisfies(pkg, safari_latest, WithMin(requirements[1], w)) = "true"
        /\ (requirements[1].maxVersion \in Comparable /\ requirements[1].minVersion = Absent)
           => \A w \in Comparable :
                 Leq(requirements[1].maxVersion, w)
                 => Satisfies(pkg, safari_latest, WithMax(requirements[1], w)) = "true"

\* satisfies of the k-th constraint alone
Single(k) == Satisfies(pkg, safari_latest, <<requirements[k]>>)
RECURSIVE AndFrom(_)
\* Single(k) && Single(k + 1) && ..., as JavaScript evaluates it: the first
\* operand that is false, or throws, decides.
AndFrom(k) ==
    IF k > Len(requirements) THEN "true"
    ELSE IF Single(k) = "true" THEN AndFrom(k + 1)
    ELSE Single(k)

\* C7: AND-composition. The outcome for a list of two (or more) constraints
\* is that of satisfies on each alone, combined with &&; a false result comes
\* from the first constraint that fails alone, every earlier one passing
\* alone, and the loop stops there.
C7_AndComposition ==
    Len(requirements) >= 2 =>
        /\ pc \in {"done", "threw"} => Outcome = AndFrom(1)
        /\ result = "false" => /\ Single(i) = "false"
                               /\ \A k \in 1..(i - 1) : Single(k) = "true"

\* Of two constraints on different engines the first passed and the second
\* made satisfies return false.
C7_Witness ==
    /\ pc = "done" /\ result = "false" /\ Len(requirements) = 2 /\ i = 2
    /\ requirements[1].engine # requirements[2].engine
    /\ Targeted(pkg.engines, browser_map, requirements[1])

RangePasses(c) ==
    c.engine \in DOMAIN pkg.engines
    => EngineRangeCheck(pkg.engines[c.engine], c.minVersion, c.maxVersion) = "pass"
VersionPasses(v, c) ==
    \/ v = TP /\ safari_latest = <<>>
    \/ TokenCheck(IF v = TP THEN LatestSafariVersion ELSE v, c.minVersion, c.maxVersion)
VersionsPass(c) ==
    c.engine \in DOMAIN browser_map
    => \A k \in 1..Len(browser_map[c.engine]) : VersionPasses(browser_map[c.engine][k], c)

\* C8: both evidence sources must pass. Every constraint the loop has passed
\* has its declared engines range (when present) passing its bound checks and
\* every resolved version of its engine (when present) passing them; a false
\* result comes from a constraint one of whose sources fails; the versions
\* are only reached once the engines range has passed.
C8_BothSources ==
    /\ \A k \in 1..(i - 1) : RangePasses(requirements[k]) /\ VersionsPass(requirements[k])
    /\ result = "false" => ~(RangePasses(requirements[i]) /\ VersionsPass(requirements[i]))
    /\ pc = "tokens" => /\ RangePasses(requirements[i])
                        /\ \A k \in 1..(j - 1) :
                              VersionPasses(browser_map[requirements[i].engine][k],
                                            requirements[i])

\* The declared engines range passed and a resolved version still made
\* satisfies return false.
C8_Witness ==
    /\ pc = "done" /\ result = "false"
    /\ requirements[i].engine \in DOMAIN pkg.engines
    /\ requirements[i].engine \in DOMAIN browser_map
    /\ RangePasses(requirements[i])

\* C9: range-token splitting. A version token passes its checks exactly when
\* the part before its first hyphen is at least minVersion (when set) and the
\* part after its last hyphen is at most maxVersion (when set); a token
\* without a hyphen is both parts itself.
C9_RangeTokenSplitting ==
    [][(pc = "tokens" /\ version # TP)
       => (Returned("false")
           <=> ~(/\ constraint.minVersion # Absent
                    => GteCoerced(semverCoerce(BeforeFirstHyphen(version)),
                                  semverCoerce(constraint.minVersion))
                 /\ constraint.maxVersion # Absent
                    => LteCoerced(semverCoerce(AfterLastHyphen(version)),
                                  semverCoerce(constraint.maxVersion))))]_vars

\* A hyphenated token failed maxVersion on its last part although its first
\* part is within the bound.
C9_Witness ==
    /\ pc = "done" /\ result = "false"
    /\ requirements[i].engine \notin DOMAIN pkg.engines
    /\ requirements[i].engine \in DOMAIN browser_map
    /\ Hyphens(browser_map[requirements[i].engine][j]) # {}
    /\ requirements[i].minVersion = Absent
    /\ LteCoerced(semverCoerce(BeforeFirstHyphen(browser_map[requirements[i].engine][j])),
                  semverCoerce(requirements[i].maxVersion))

\* C10: a "TP" token is never compared itself. The resolver is asked "last 1
\* safari version", whatever the constraint's engine; with no answer the
\* token is skipped and the loop moves on, otherwise the version part of the
\* answer is checked in its place.
C10_TechnologyPreview ==
    [][(pc = "tokens" /\ version = TP)
       => /\ calls' = Append(calls, <<"last 1 safari version">>)
          /\ IF safari_latest = <<>>
             THEN /\ result' = "none" /\ error' = "none"
                  /\ (pc' = "tokens" /\ i' = i /\ j' = j + 1) \/ (pc' = "loop" /\ i' = i + 1)
             ELSE Returned("false")
                  <=> ~TokenCheck(LatestSafariVersion,
                                  constraint.minVersion, constraint.maxVersion)]_vars

\* A constraint on op_mini passed on a "TP" token through the safari lookup.
C10_Witness ==
    /\ pc = "done" /\ result = "true" /\ Len(requirements) = 1
    /\ requirements[1].engine = op_mini
    /\ HasBound(requirements[1])
    /\ safari_latest # <<>>
    /\ calls = <<Asked, <<LastSafariQuery>>>>

\* The number of calls the resolver received with query list q.
TimesAsked(q) == Cardinality({k \in 1..Len(calls) : calls[k] = q})

\* C11, as stated: within one invocation the resolver is called at most once
\* per distinct query list. The manifest's query list is resolved at most
\* once, and not at all when the field is absent or an empty list, and the
\* "last 1 safari version" lookup is issued at most once, however many
\* constraints or versions need it.
C11_ResolverOncePerQueryList ==
    /\ \A k \in 1..Len(calls) : TimesAsked(calls[k]) <= 1
    /\ (Kind = "undefined" \/ Asked = <<>>) => calls = <<>>

====
